---- MODULE Spec2Model ----
(***************************************************************************)
(* Limit-chase engine of HL_LIMIT_CHASE_V2: the market-data stream task,   *)
(* the bounded queue, the throttled consumer of limit_chase_usage.run, the *)
(* LimitChaser state machine and the live order gateway in front of the    *)
(* venue.                                                                  *)
(*                                                                         *)
(* Prices are integers in tenths of a quote unit (100.3 is 1003), so that  *)
(* TICK_SIZE = 0.5 is 5 and floor(px / tick) * tick is exact.  Times are   *)
(* integer milliseconds, as in Quote.ts_ms.  An Optional value is the      *)
(* empty tuple (None) or a one-element tuple.                              *)
(***************************************************************************)
EXTENDS Integers, Sequences, FiniteSets, TLC

VARIABLES
    \* LimitChaser (limit_chase.py:125-128)
    order_id, order_px, start_px, placed_ts,
    \* position inside on_quote (the await it is suspended at) and its quote
    eng_pc, cur,
    \* run() of limit_chase_usage.py: consumer position, last_check, the
    \* outcome returned by the last completed on_quote, the exception in flight
    run_pc, last_check, out, run_exc,
    \* asyncio.Queue(maxsize) between stream task and consumer
    queue,
    \* stream_l2_to_queue task: its state, the quote it is blocked putting,
    \* whether cancel() was requested, its keepalive sub-task
    stream_state, pending, cancel_requested, ka,
    \* wall clock of the stream task and number of inbound messages so far
    clock, msgs,
    \* the venue: status and limit price of every order it accepted, by oid
    orders,
    \* chaser configuration chosen at construction
    side,
    \* observation of the run: gateway calls of the current step, the chaser
    \* state at the start of the step, the quotes dequeued so far
    calls, step, dequeued,
    \* stream_l2_to_queue: the frame "async for raw in ws" has received and
    \* not yet handled
    raw,
    \* CountingLiveExchangeClient (test_limit_chase.py:57-58)
    _place_count, _cancel_count,
    \* the argument and the result of a gateway or chaser function applied on
    \* its own: _round_to_tick(fn_px) with tick_size fn_tick, and poll_fill
    \* on the venue's answer fn_status
    fn_px, fn_tick, fn_target, fn_status, fn_filled,
    \* every gateway call the engine has made since it was constructed, in
    \* order: the operation, the identifier, and whether a poll said filled
    history,
    \* run() of test_limit_chase.py: first_ts (line 159) and the row
    \* _append_stats writes (lines 110-119)
    first_ts, csv_row

vars == << order_id, order_px, start_px, placed_ts, eng_pc, cur, run_pc,
           last_check, out, run_exc, queue, stream_state, pending,
           cancel_requested, ka, clock, msgs, orders, side, calls, step,
           dequeued >>

\* the variables of the parts modelled on their own; the program of
\* limit_chase_usage.py and the LimitChaser leave them alone
aux_vars == << raw, _place_count, _cancel_count,
               fn_px, fn_tick, fn_target, fn_status, fn_filled,
               history, first_ts, csv_row >>

\* the variables of the recorded run of test_limit_chase.py
test_vars == << history, first_ts, csv_row >>

-----------------------------------------------------------------------------
(* Bounds of the model *)

\* inbound book messages the stream task receives in one run
MaxMsgs == 4

\* capacity of the queue (asyncio.Queue(maxsize=1000) in the program)
QueueMaxSize == 2

\* the number of direct calls of on_quote on one engine
MaxCalls == 3

-----------------------------------------------------------------------------
(* Configuration of limit_chase_usage.py, prices in tenths *)

TICK_SIZE == 5
REFRESH_INTERVAL_MS == 500
TOLERANCE_TICKS == 1
MAX_AGE_MS == 5000
MAX_CHASE_TICKS == 10

\* ORDER_SIZE = 0.0002, in ten-thousandths of the asset
ORDER_SIZE == 2

Sides == {"buy", "sell"}

\* The inbound l2Book messages of the model: the best bid and best ask of the
\* book, and the milliseconds until the next message arrives.  Bids round to
\* 1000, 1005 and 1055 (asks to 1005, 1010 and 1060): one tick, ten ticks and
\* eleven ticks apart.  The short gaps are those of the throttle (100, 300,
\* 200 and their sums around REFRESH_INTERVAL_MS); the long gap reaches
\* MAX_AGE_MS and lets any book follow any book at the chaser.
Messages ==
    { [bid_px |-> 1003, ask_px |-> 1008, gap |-> g] : g \in {100, 200, 300, 5000} }
    \cup { [bid_px |-> 1007, ask_px |-> 1012, gap |-> 5000],
           [bid_px |-> 1057, ask_px |-> 1062, gap |-> 5000] }

-----------------------------------------------------------------------------
(* Optional values *)

None == << >>
Some(v) == << v >>
Val(o) == o[1]

Abs(x) == IF x < 0 THEN -x ELSE x

\* str(oid) and int(order_id): the identifier the chaser holds is a string
StrOf(n) == << "str", n >>
IntOf(s) == s[2]

-----------------------------------------------------------------------------
(* executor.py *)

\* what self.exchange.order(...) answers for one placement
OrderResults == { "raises", "err_not_exist", "err_other",
                  "ok_resting", "ok_filled", "ok_error" }

\* whether an exception class is caught by "except Exception"
IsException(exc) == exc \in {"Exception", "AccountNotInitializedError"}

\* the try body of execute_limit_order: a return value or a raise.
\* oid is the identifier the venue assigned when it accepted the order.
execute_limit_order_try(result, oid) ==
    CASE result = "raises" ->
            [tag |-> "raise", exc |-> "Exception", val |-> None]
      [] result = "err_not_exist" ->
            [tag |-> "raise", exc |-> "AccountNotInitializedError", val |-> None]
      [] result = "err_other" ->
            [tag |-> "return", exc |-> "", val |-> None]
      [] result = "ok_filled" ->
            [tag |-> "return", exc |-> "", val |-> Some(oid)]
      [] result = "ok_resting" ->
            [tag |-> "return", exc |-> "", val |-> Some(oid)]
      [] OTHER ->
            [tag |-> "return", exc |-> "", val |-> None]

\* variant: execute_limit_order without its "except Exception"
execute_limit_order_uncaught(result, oid) ==
    execute_limit_order_try(result, oid)

\* execute_limit_order: the try body under "except Exception: return None"
execute_limit_order(result, oid) ==
    LET r == execute_limit_order_try(result, oid)
    IN  IF r.tag = "raise" /\ IsException(r.exc)
        THEN [tag |-> "return", exc |-> "", val |-> None]
        ELSE r

\* what self.exchange.cancel(...) answers
CancelResults == { "ok", "err", "raises" }

\* cancel_order: True only for an "ok" answer, False on any other or a raise
cancel_order(result) == result = "ok"

\* what query_order_by_oid answers for an order whose venue status is st:
\* a raise, the status at the top level, the status in the order record, or
\* the status in the order record under a top-level status "order"
StatusResults(st) ==
    { [raises |-> TRUE,  top |-> None, nested |-> None],
      [raises |-> FALSE, top |-> Some(st), nested |-> None],
      [raises |-> FALSE, top |-> None, nested |-> Some(st)],
      [raises |-> FALSE, top |-> Some("order"), nested |-> Some(st)] }

\* get_order_status: the answer, or None when the query raised
get_order_status(result) ==
    IF result.raises THEN None ELSE Some(result)

\* the try body of cancel_order: a return value or a raise
cancel_order_try(result) ==
    IF result = "raises"
    THEN [tag |-> "raise", exc |-> "Exception", val |-> FALSE]
    ELSE [tag |-> "return", exc |-> "", val |-> cancel_order(result)]

-----------------------------------------------------------------------------
(* LiveExchangeClient, limit_chase.py *)

\* variant: a cancel that raises when the venue did not cancel
cancel_raising(result) ==
    IF cancel_order(result)
    THEN [tag |-> "return", exc |-> ""]
    ELSE [tag |-> "raise", exc |-> "Exception"]

\* cancel: awaits cancel_order, whose "except Exception" turns a raise into
\* False, and drops its result
cancel(result) ==
    LET r == cancel_order_try(result)
    IN  IF r.tag = "raise" /\ ~IsException(r.exc)
        THEN [tag |-> "raise", exc |-> r.exc]
        ELSE [tag |-> "return", exc |-> ""]

\* place_limit: str(order_id), None, or the raise of execute_limit_order
place_limit(result, oid) ==
    LET r == execute_limit_order(result, oid)
    IN  IF r.tag = "raise" THEN r
        ELSE IF r.val # None
             THEN [tag |-> "return", exc |-> "", val |-> Some(StrOf(Val(r.val)))]
             ELSE [tag |-> "return", exc |-> "", val |-> None]

\* poll_fill: status == "filled", the top-level status before the nested one
poll_fill(result) ==
    LET order_status == get_order_status(result)
    IN  IF order_status = None THEN FALSE
        ELSE LET s == Val(order_status)
                 status == IF s.top # None THEN s.top ELSE s.nested
             IN  status = Some("filled")

-----------------------------------------------------------------------------
(* LimitChaser, limit_chase.py *)

\* variant: the price is rounded to the nearest tick
_round_to_tick_nearest(px) == ((px + TICK_SIZE \div 2) \div TICK_SIZE) * TICK_SIZE

\* _round_to_tick: math.floor(px / tick_size) * tick_size
_round_to_tick(px) == (px \div TICK_SIZE) * TICK_SIZE

\* variant: the best bid is the target on either side
target_px_bid_only(q) == _round_to_tick(q.bid_px)

\* target_px of on_quote: the side's best price, rounded to the tick
target_px(q) ==
    _round_to_tick(IF side = "buy" THEN q.bid_px ELSE q.ask_px)

\* both operands are multiples of the tick, so the division is exact
drift_ticks(q) == Abs(target_px(q) - Val(order_px)) \div TICK_SIZE
age_ms(q) == q.ts - Val(placed_ts)
total_chase_ticks(q) == Abs(target_px(q) - Val(start_px)) \div TICK_SIZE

\* variant: a refresh only beyond the tolerance and beyond the maximum age
should_refresh_strict(q) ==
    drift_ticks(q) > TOLERANCE_TICKS \/ age_ms(q) > MAX_AGE_MS

\* variant: the age of the order is tested against the dispatch interval
should_refresh_by_interval(q) ==
    drift_ticks(q) >= TOLERANCE_TICKS \/ age_ms(q) >= REFRESH_INTERVAL_MS

should_refresh(q) ==
    drift_ticks(q) >= TOLERANCE_TICKS \/ age_ms(q) >= MAX_AGE_MS

\* variant: the abort test lets one tick more through
should_abort_lenient(q) == total_chase_ticks(q) > MAX_CHASE_TICKS + 1

\* variant: the abort test admits the boundary
should_abort_at_boundary(q) == total_chase_ticks(q) >= MAX_CHASE_TICKS

should_abort(q) == total_chase_ticks(q) > MAX_CHASE_TICKS

\* variant: a _reset that leaves placed_ts behind
reset_keeps_placed_ts ==
    /\ order_id' = None
    /\ order_px' = None
    /\ start_px' = None
    /\ UNCHANGED placed_ts

\* _reset
_reset ==
    /\ order_id' = None
    /\ order_px' = None
    /\ start_px' = None
    /\ placed_ts' = None

-----------------------------------------------------------------------------
(* The state after construction: LimitChaser.__init__, run() up to the     *)
(* creation of the stream task, the connection open and subscribed.        *)

NoStep == [order_id |-> None, order_px |-> None, start_px |-> None,
           placed_ts |-> None, target |-> 0, now |-> 0,
           bid_px |-> 0, ask_px |-> 0]

\* the parts modelled on their own, before anything has happened in them
AuxInit ==
    /\ raw = << >>
    /\ _place_count = 0 /\ _cancel_count = 0
    /\ fn_px = 0 /\ fn_tick = 0 /\ fn_target = << >>
    /\ fn_status = << >> /\ fn_filled = << >>
    /\ history = << >> /\ first_ts = << >> /\ csv_row = << >>

Init ==
    /\ AuxInit
    /\ order_id = None /\ order_px = None
    /\ start_px = None /\ placed_ts = None
    /\ eng_pc = "ready" /\ cur = None
    /\ run_pc = "get" /\ last_check = 0 /\ out = "none" /\ run_exc = None
    /\ queue = << >>
    /\ stream_state = "running" /\ pending = None
    /\ cancel_requested = FALSE /\ ka = "running"
    /\ clock = 0 /\ msgs = 0
    /\ orders = << >>
    /\ side \in Sides
    /\ calls = << >> /\ step = NoStep /\ dequeued = << >>

chaser_vars == << order_id, order_px, start_px, placed_ts >>
stream_vars == << stream_state, pending, ka, clock, msgs >>

-----------------------------------------------------------------------------
(* Consumer of run(): limit_chase_usage.py:66-88 *)

Terminal == {"filled", "aborted"}

\* variant: the first quote of the run always passes the throttle
Throttled_after_first(now) ==
    dequeued # << >> /\ now - last_check < REFRESH_INTERVAL_MS

\* the throttle test of the consumer: now - last_check < REFRESH_INTERVAL_MS
Throttled(now) == now - last_check < REFRESH_INTERVAL_MS

\* stream_task.cancel(): a request, and nothing on a task that is done
stream_task_cancel ==
    cancel_requested' = (cancel_requested \/ stream_state = "running")

\* variant: the consumer does not stamp last_check after a step
Returned_without_stamp(o, now) ==
    /\ eng_pc' = "ready"
    /\ cur' = None
    /\ out' = o
    /\ IF o \in Terminal
       THEN stream_task_cancel /\ run_pc' = "await_stream"
       ELSE UNCHANGED cancel_requested /\ run_pc' = "get"
    /\ UNCHANGED << run_exc, last_check >>

\* on_quote has returned o for the quote stamped now.  In run():
\* last_check = now, and on a terminal outcome cancel the stream task and
\* leave the loop.  Called directly, the outcome goes to the caller.
Returned(o, now) ==
    /\ eng_pc' = "ready"
    /\ cur' = None
    /\ out' = o
    /\ IF run_pc = "direct"
       THEN UNCHANGED << run_pc, last_check, cancel_requested >>
       ELSE /\ last_check' = now
            /\ IF o \in Terminal
               THEN stream_task_cancel /\ run_pc' = "await_stream"
               ELSE UNCHANGED cancel_requested /\ run_pc' = "get"
    /\ UNCHANGED run_exc

\* on_quote has raised exc: the consumer prints and re-raises, run() goes to
\* its finally with the exception in flight
Raised(exc) ==
    /\ eng_pc' = "ready"
    /\ cur' = None
    /\ run_exc' = Some(exc)
    /\ run_pc' = IF run_pc = "direct" THEN "direct" ELSE "await_stream"
    /\ UNCHANGED << out, last_check, cancel_requested >>

\* variant: a discarded quote restarts the refresh interval
ConsumerDiscard_stamps ==
    /\ run_pc = "get"
    /\ queue # << >>
    /\ Throttled(Head(queue).ts)
    /\ queue' = Tail(queue)
    /\ dequeued' = Append(dequeued, [ts |-> Head(queue).ts, dispatched |-> FALSE])
    /\ last_check' = Head(queue).ts
    /\ UNCHANGED << chaser_vars, eng_pc, cur, run_pc, out, run_exc,
                    stream_vars, cancel_requested, orders, side, calls, step >>

\* q.get() of a quote inside the refresh interval: continue
ConsumerDiscard ==
    /\ run_pc = "get"
    /\ queue # << >>
    /\ Throttled(Head(queue).ts)
    /\ queue' = Tail(queue)
    /\ dequeued' = Append(dequeued, [ts |-> Head(queue).ts, dispatched |-> FALSE])
    /\ UNCHANGED << chaser_vars, eng_pc, cur, run_pc, last_check, out, run_exc,
                    stream_vars, cancel_requested, orders, side, calls, step >>

\* variant: on_quote is started as a task of its own and the loop goes back
\* to q.get() without awaiting it
ConsumerDispatch_detached ==
    /\ run_pc = "get"
    /\ queue # << >>
    /\ ~Throttled(Head(queue).ts)
    /\ LET quote == Head(queue)
       IN  /\ queue' = Tail(queue)
           /\ dequeued' = Append(dequeued, [ts |-> quote.ts, dispatched |-> TRUE])
           /\ cur' = Some(quote)
           /\ run_pc' = "get"
           /\ calls' = << >>
           /\ step' = [order_id |-> order_id, order_px |-> order_px,
                       start_px |-> start_px, placed_ts |-> placed_ts,
                       target |-> target_px(quote), now |-> quote.ts,
                       bid_px |-> quote.bid_px, ask_px |-> quote.ask_px]
           /\ IF order_id = None
              THEN /\ start_px' = Some(target_px(quote))
                   /\ order_px' = Some(target_px(quote))
                   /\ eng_pc' = "place_first"
                   /\ UNCHANGED << order_id, placed_ts >>
              ELSE /\ eng_pc' = "poll"
                   /\ UNCHANGED chaser_vars
    /\ UNCHANGED << last_check, out, run_exc, stream_vars, cancel_requested,
                    orders, side >>

\* variant: the run loop takes the newest quote of the queue
ConsumerDispatch_lifo ==
    /\ run_pc = "get"
    /\ queue # << >>
    /\ ~Throttled(queue[Len(queue)].ts)
    /\ LET quote == queue[Len(queue)]
       IN  /\ queue' = SubSeq(queue, 1, Len(queue) - 1)
           /\ dequeued' = Append(dequeued, [ts |-> quote.ts, dispatched |-> TRUE])
           /\ cur' = Some(quote)
           /\ run_pc' = "on_quote"
           /\ calls' = << >>
           /\ step' = [order_id |-> order_id, order_px |-> order_px,
                       start_px |-> start_px, placed_ts |-> placed_ts,
                       target |-> target_px(quote), now |-> quote.ts,
                       bid_px |-> quote.bid_px, ask_px |-> quote.ask_px]
           /\ IF order_id = None
              THEN /\ start_px' = Some(target_px(quote))
                   /\ order_px' = Some(target_px(quote))
                   /\ eng_pc' = "place_first"
                   /\ UNCHANGED << order_id, placed_ts >>
              ELSE /\ eng_pc' = "poll"
                   /\ UNCHANGED chaser_vars
    /\ UNCHANGED << last_check, out, run_exc, stream_vars, cancel_requested,
                    orders, side >>

\* q.get() of a quote that passes the throttle, and on_quote up to its first
\* await: place_limit when no order is tracked, poll_fill otherwise
ConsumerDispatch ==
    /\ run_pc = "get"
    /\ queue # << >>
    /\ ~Throttled(Head(queue).ts)
    /\ LET quote == Head(queue)
       IN  /\ queue' = Tail(queue)
           /\ dequeued' = Append(dequeued, [ts |-> quote.ts, dispatched |-> TRUE])
           /\ cur' = Some(quote)
           /\ run_pc' = "on_quote"
           /\ calls' = << >>
           /\ step' = [order_id |-> order_id, order_px |-> order_px,
                       start_px |-> start_px, placed_ts |-> placed_ts,
                       target |-> target_px(quote), now |-> quote.ts,
                       bid_px |-> quote.bid_px, ask_px |-> quote.ask_px]
           /\ IF order_id = None
              THEN /\ start_px' = Some(target_px(quote))
                   /\ order_px' = Some(target_px(quote))
                   /\ eng_pc' = "place_first"
                   /\ UNCHANGED << order_id, placed_ts >>
              ELSE /\ eng_pc' = "poll"
                   /\ UNCHANGED chaser_vars
    /\ UNCHANGED << last_check, out, run_exc, stream_vars, cancel_requested,
                    orders, side >>

-----------------------------------------------------------------------------
(* The venue's side of a gateway call *)

\* the order book of the venue after it answered a placement with result
\* at limit price px
PlacedOrders(result, px) ==
    CASE result = "ok_resting" -> Append(orders, [status |-> "open", px |-> px])
      [] result = "ok_filled"  -> Append(orders, [status |-> "filled", px |-> px])
      [] OTHER -> orders

\* the order book of the venue after it answered a cancel of oid with result
CancelledOrders(result, oid) ==
    IF cancel_order(result) /\ orders[oid].status = "open"
    THEN [orders EXCEPT ![oid].status = "canceled"]
    ELSE orders

\* the record of one gateway call: its arguments (side, price and size of a
\* placement, the identifier of a cancel or poll) and what it returned
PlaceCall(result, q, r) ==
    [op |-> "place", side |-> side, px |-> target_px(q), size |-> ORDER_SIZE,
     oid |-> r.val,
     resp |-> IF result = "err_not_exist" THEN result ELSE "other"]

CancelCall(result, id) ==
    [op |-> "cancel", side |-> "", px |-> 0, size |-> 0, oid |-> Some(id),
     resp |-> result]

PollCall(filled, id) ==
    [op |-> "poll", side |-> "", px |-> 0, size |-> 0, oid |-> Some(id),
     resp |-> IF filled THEN "filled" ELSE "not_filled"]

-----------------------------------------------------------------------------
(* LimitChaser.on_quote, one action per await: limit_chase.py:133-195 *)

\* variant: a placement the venue fills at once is reported filled by the
\* step that placed it
PlaceFirst_reports_fill ==
    /\ eng_pc = "place_first"
    /\ \E result \in OrderResults :
         LET q == Val(cur)
             r == place_limit(result, Len(orders) + 1)
         IN  /\ orders' = PlacedOrders(result, target_px(q))
             /\ calls' = Append(calls, PlaceCall(result, q, r))
             /\ IF r.tag = "raise"
                THEN /\ Raised(r.exc)
                     /\ UNCHANGED chaser_vars
                ELSE IF result = "ok_filled"
                THEN _reset /\ Returned("filled", q.ts)
                ELSE /\ order_id' = r.val
                     /\ placed_ts' = Some(q.ts)
                     /\ UNCHANGED << order_px, start_px >>
                     /\ Returned("none", q.ts)
    /\ UNCHANGED << queue, stream_vars, side, step, dequeued >>

\* lines 147-155: the first placement returns
PlaceFirst ==
    /\ eng_pc = "place_first"
    /\ \E result \in OrderResults :
         LET q == Val(cur)
             r == place_limit(result, Len(orders) + 1)
         IN  /\ orders' = PlacedOrders(result, target_px(q))
             /\ calls' = Append(calls, PlaceCall(result, q, r))
             /\ IF r.tag = "raise"
                THEN /\ Raised(r.exc)
                     /\ UNCHANGED chaser_vars
                ELSE /\ order_id' = r.val
                     /\ placed_ts' = Some(q.ts)
                     /\ UNCHANGED << order_px, start_px >>
                     /\ Returned("none", q.ts)
    /\ UNCHANGED << queue, stream_vars, side, step, dequeued >>

\* variant: the abort test comes before the fill result is looked at
PollFill_abort_first ==
    /\ eng_pc = "poll"
    /\ \E result \in StatusResults(orders[IntOf(Val(order_id))].status) :
         LET q == Val(cur)
             filled == poll_fill(result)
         IN  /\ calls' = Append(calls, PollCall(filled, Val(order_id)))
             /\ IF should_abort(q)
                THEN /\ eng_pc' = "cancel_abort"
                     /\ UNCHANGED << chaser_vars, cur, run_pc, last_check, out,
                                     run_exc, cancel_requested >>
                ELSE IF filled
                THEN _reset /\ Returned("filled", q.ts)
                ELSE IF should_refresh(q)
                THEN /\ eng_pc' = "cancel_refresh"
                     /\ UNCHANGED << chaser_vars, cur, run_pc, last_check, out,
                                     run_exc, cancel_requested >>
                ELSE UNCHANGED chaser_vars /\ Returned("none", q.ts)
    /\ UNCHANGED << queue, stream_vars, orders, side, step, dequeued >>

\* lines 157-195 up to the next await: the fill poll returns
PollFill ==
    /\ eng_pc = "poll"
    /\ \E result \in StatusResults(orders[IntOf(Val(order_id))].status) :
         LET q == Val(cur)
             filled == poll_fill(result)
         IN  /\ calls' = Append(calls, PollCall(filled, Val(order_id)))
             /\ IF filled
                THEN _reset /\ Returned("filled", q.ts)
                ELSE IF should_abort(q)
                THEN /\ eng_pc' = "cancel_abort"
                     /\ UNCHANGED << chaser_vars, cur, run_pc, last_check, out,
                                     run_exc, cancel_requested >>
                ELSE IF should_refresh(q)
                THEN /\ eng_pc' = "cancel_refresh"
                     /\ UNCHANGED << chaser_vars, cur, run_pc, last_check, out,
                                     run_exc, cancel_requested >>
                ELSE UNCHANGED chaser_vars /\ Returned("none", q.ts)
    /\ UNCHANGED << queue, stream_vars, orders, side, step, dequeued >>

\* variant: the abort resets the chaser without sending the cancel
CancelAbort_unsent ==
    /\ eng_pc = "cancel_abort"
    /\ calls' = Append(calls, CancelCall("ok", Val(order_id)))
    /\ _reset /\ Returned("aborted", Val(cur).ts)
    /\ UNCHANGED << queue, stream_vars, orders, side, step, dequeued >>

\* lines 176-178: the cancel of the abort returns
CancelAbort ==
    /\ eng_pc = "cancel_abort"
    /\ \E result \in CancelResults :
         /\ orders' = CancelledOrders(result, IntOf(Val(order_id)))
         /\ calls' = Append(calls, CancelCall(result, Val(order_id)))
         /\ IF cancel(result).tag = "raise"
            THEN Raised(cancel(result).exc) /\ UNCHANGED chaser_vars
            ELSE _reset /\ Returned("aborted", Val(cur).ts)
    /\ UNCHANGED << queue, stream_vars, side, step, dequeued >>

\* variant: the refresh re-places without cancelling the tracked order
CancelRefresh_skipped ==
    /\ eng_pc = "cancel_refresh"
    /\ eng_pc' = "place_refresh"
    /\ UNCHANGED << chaser_vars, cur, run_pc, last_check, out, run_exc,
                    cancel_requested, queue, stream_vars, orders, side, calls,
                    step, dequeued >>

\* line 188: the cancel of the refresh returns
CancelRefresh ==
    /\ eng_pc = "cancel_refresh"
    /\ \E result \in CancelResults :
         /\ orders' = CancelledOrders(result, IntOf(Val(order_id)))
         /\ calls' = Append(calls, CancelCall(result, Val(order_id)))
         /\ IF cancel(result).tag = "raise"
            THEN Raised(cancel(result).exc)
            ELSE /\ eng_pc' = "place_refresh"
                 /\ UNCHANGED << cur, run_pc, last_check, out, run_exc,
                                 cancel_requested >>
    /\ UNCHANGED << chaser_vars, queue, stream_vars, side, step, dequeued >>

\* variant: a re-placement that returns no identifier leaves the cancelled
\* order tracked
PlaceRefresh_keeps_id_on_failure ==
    /\ eng_pc = "place_refresh"
    /\ \E result \in OrderResults :
         LET q == Val(cur)
             r == place_limit(result, Len(orders) + 1)
         IN  /\ orders' = PlacedOrders(result, target_px(q))
             /\ calls' = Append(calls, PlaceCall(result, q, r))
             /\ IF r.tag = "raise"
                THEN /\ Raised(r.exc)
                     /\ UNCHANGED chaser_vars
                ELSE /\ order_id' = IF r.val = None THEN order_id ELSE r.val
                     /\ order_px' = Some(target_px(q))
                     /\ placed_ts' = Some(q.ts)
                     /\ UNCHANGED start_px
                     /\ Returned("none", q.ts)
    /\ UNCHANGED << queue, stream_vars, side, step, dequeued >>

\* lines 189-195: the placement of the refresh returns
PlaceRefresh ==
    /\ eng_pc = "place_refresh"
    /\ \E result \in OrderResults :
         LET q == Val(cur)
             r == place_limit(result, Len(orders) + 1)
         IN  /\ orders' = PlacedOrders(result, target_px(q))
             /\ calls' = Append(calls, PlaceCall(result, q, r))
             /\ IF r.tag = "raise"
                THEN /\ Raised(r.exc)
                     /\ UNCHANGED chaser_vars
                ELSE /\ order_id' = r.val
                     /\ order_px' = Some(target_px(q))
                     /\ placed_ts' = Some(q.ts)
                     /\ UNCHANGED start_px
                     /\ Returned("none", q.ts)
    /\ UNCHANGED << queue, stream_vars, side, step, dequeued >>

-----------------------------------------------------------------------------
(* run(): the finally of limit_chase_usage.py:90-98 *)

\* "await stream_task" completes once the task is done.  A cancelled task
\* raises CancelledError, which is caught; a task that ended returns; a task
\* that failed re-raises its exception out of the finally.  Then the
\* exception in flight, if any, propagates, else run() returns res.
AwaitStreamTask ==
    /\ run_pc = "await_stream"
    /\ stream_state # "running"
    /\ run_exc' = IF stream_state = "failed" THEN Some("StreamError") ELSE run_exc
    /\ run_pc' = IF run_exc' # None THEN "raised" ELSE "returned"
    /\ UNCHANGED << chaser_vars, eng_pc, cur, last_check, out, queue,
                    stream_vars, cancel_requested, orders, side, calls, step,
                    dequeued >>

-----------------------------------------------------------------------------
(* stream_l2_to_queue: limit_chase.py:207-256 *)

\* the task is suspended in the read of the socket
Reading == stream_state = "running" /\ ~cancel_requested /\ pending = None

\* variant: a put on a full queue pushes the oldest quote out
StreamRecv_drop_oldest ==
    /\ Reading
    /\ msgs < MaxMsgs
    /\ \E m \in Messages :
         LET q == [ts |-> clock, bid_px |-> m.bid_px, ask_px |-> m.ask_px]
         IN  /\ IF Len(queue) < QueueMaxSize
                THEN queue' = Append(queue, q) /\ pending' = None
                ELSE queue' = Append(Tail(queue), q) /\ pending' = None
             /\ clock' = clock + m.gap
    /\ msgs' = msgs + 1
    /\ UNCHANGED << chaser_vars, eng_pc, cur, run_pc, last_check, out, run_exc,
                    stream_state, cancel_requested, ka, orders, side, calls,
                    step, dequeued >>

\* lines 232-254: one l2Book message with both sides is decoded into a Quote
\* stamped with the wall clock and put on the queue; the put blocks when the
\* queue is full
StreamRecv ==
    /\ Reading
    /\ msgs < MaxMsgs
    /\ \E m \in Messages :
         LET q == [ts |-> clock, bid_px |-> m.bid_px, ask_px |-> m.ask_px]
         IN  /\ IF Len(queue) < QueueMaxSize
                THEN queue' = Append(queue, q) /\ pending' = None
                ELSE pending' = Some(q) /\ UNCHANGED queue
             /\ clock' = clock + m.gap
    /\ msgs' = msgs + 1
    /\ UNCHANGED << chaser_vars, eng_pc, cur, run_pc, last_check, out, run_exc,
                    stream_state, cancel_requested, ka, orders, side, calls,
                    step, dequeued >>

\* line 254: the blocked put completes once the consumer has made room
StreamPut ==
    /\ stream_state = "running" /\ ~cancel_requested
    /\ pending # None
    /\ Len(queue) < QueueMaxSize
    /\ queue' = Append(queue, Val(pending))
    /\ pending' = None
    /\ UNCHANGED << chaser_vars, eng_pc, cur, run_pc, last_check, out, run_exc,
                    stream_state, cancel_requested, ka, clock, msgs, orders,
                    side, calls, step, dequeued >>

\* variant: the read loop ends without the finally that cancels the keepalive
StreamEnd_keeps_keepalive ==
    /\ Reading
    /\ \E how \in {"ended", "failed"} : stream_state' = how
    /\ UNCHANGED << chaser_vars, eng_pc, cur, run_pc, last_check, out, run_exc,
                    queue, pending, cancel_requested, ka, clock, msgs, orders,
                    side, calls, step, dequeued >>

\* lines 232, 255-256: the connection is lost.  The read loop ends (a normal
\* close) or raises (an abnormal close, a message that does not decode);
\* the finally cancels the keepalive and the task is done
StreamEnd ==
    /\ Reading
    /\ \E how \in {"ended", "failed"} : stream_state' = how
    /\ ka' = "cancelled"
    /\ UNCHANGED << chaser_vars, eng_pc, cur, run_pc, last_check, out, run_exc,
                    queue, pending, cancel_requested, clock, msgs, orders, side,
                    calls, step, dequeued >>

\* the cancellation requested by run() reaches the task at its await (the
\* read or the blocked put): CancelledError, the finally, the task is done
StreamCancelled ==
    /\ stream_state = "running"
    /\ cancel_requested
    /\ stream_state' = "cancelled"
    /\ pending' = None
    /\ ka' = "cancelled"
    /\ UNCHANGED << chaser_vars, eng_pc, cur, run_pc, last_check, out, run_exc,
                    queue, cancel_requested, clock, msgs, orders, side, calls,
                    step, dequeued >>

-----------------------------------------------------------------------------
(* The venue *)

\* an open order is matched
VenueFill ==
    /\ \E o \in DOMAIN orders :
         /\ orders[o].status = "open"
         /\ orders' = [orders EXCEPT ![o].status = "filled"]
    /\ UNCHANGED << chaser_vars, eng_pc, cur, run_pc, last_check, out, run_exc,
                    queue, stream_vars, cancel_requested, side, calls, step,
                    dequeued >>

-----------------------------------------------------------------------------

Next ==
    \/ ConsumerDiscard /\ UNCHANGED aux_vars
    \/ ConsumerDispatch /\ UNCHANGED aux_vars
    \/ PlaceFirst /\ UNCHANGED aux_vars
    \/ PollFill /\ UNCHANGED aux_vars
    \/ CancelAbort /\ UNCHANGED aux_vars
    \/ CancelRefresh /\ UNCHANGED aux_vars
    \/ PlaceRefresh /\ UNCHANGED aux_vars
    \/ AwaitStreamTask /\ UNCHANGED aux_vars
    \/ StreamRecv /\ UNCHANGED aux_vars
    \/ StreamPut /\ UNCHANGED aux_vars
    \/ StreamEnd /\ UNCHANGED aux_vars
    \/ StreamCancelled /\ UNCHANGED aux_vars
    \/ VenueFill /\ UNCHANGED aux_vars

Spec == Init /\ [][Next]_vars

-----------------------------------------------------------------------------
(* One LimitChaser driven by direct calls of on_quote, without run(): the
   engine is an object of its own, and after a terminal outcome it is Idle
   again and takes further quotes *)

\* the quotes of a direct caller and the milliseconds until the next one:
\* bids round to 1000, 1005, 1050 and 1060 (asks to 1005, 1010, 1055 and
\* 1065), which is one, ten and twelve ticks from the first; the next quote
\* comes inside MAX_AGE_MS or at it
DirectQuotes ==
    { [bid_px |-> 1003, ask_px |-> 1008, gap |-> 200],
      [bid_px |-> 1003, ask_px |-> 1008, gap |-> 5000],
      [bid_px |-> 1007, ask_px |-> 1012, gap |-> 200],
      [bid_px |-> 1053, ask_px |-> 1058, gap |-> 5000],
      [bid_px |-> 1060, ask_px |-> 1065, gap |-> 200] }

\* the engine after LimitChaser.__init__, with no run() and no stream task
EngineInit ==
    /\ AuxInit
    /\ order_id = None /\ order_px = None
    /\ start_px = None /\ placed_ts = None
    /\ eng_pc = "ready" /\ cur = None
    /\ run_pc = "direct" /\ last_check = 0 /\ out = "none" /\ run_exc = None
    /\ queue = << >>
    /\ stream_state = "absent" /\ pending = None
    /\ cancel_requested = FALSE /\ ka = "absent"
    /\ clock = 0 /\ msgs = 0
    /\ orders = << >>
    /\ side \in Sides
    /\ calls = << >> /\ step = NoStep /\ dequeued = << >>

\* await chaser.on_quote(q) by a caller, once the previous call has
\* returned without raising: on_quote up to its first await
DirectCall ==
    /\ run_pc = "direct"
    /\ eng_pc = "ready"
    /\ run_exc = None
    /\ msgs < MaxCalls
    /\ \E m \in DirectQuotes :
         LET quote == [ts |-> clock, bid_px |-> m.bid_px, ask_px |-> m.ask_px]
         IN  /\ cur' = Some(quote)
             /\ clock' = clock + m.gap
             /\ calls' = << >>
             /\ step' = [order_id |-> order_id, order_px |-> order_px,
                         start_px |-> start_px, placed_ts |-> placed_ts,
                         target |-> target_px(quote), now |-> quote.ts,
                         bid_px |-> quote.bid_px, ask_px |-> quote.ask_px]
             /\ IF order_id = None
                THEN /\ start_px' = Some(target_px(quote))
                     /\ order_px' = Some(target_px(quote))
                     /\ eng_pc' = "place_first"
                     /\ UNCHANGED << order_id, placed_ts >>
                ELSE /\ eng_pc' = "poll"
                     /\ UNCHANGED chaser_vars
    /\ msgs' = msgs + 1
    /\ UNCHANGED << run_pc, last_check, out, run_exc, queue, stream_state,
                    pending, ka, cancel_requested, orders, side, dequeued >>

EngineNext ==
    \/ DirectCall /\ UNCHANGED aux_vars
    \/ PlaceFirst /\ UNCHANGED aux_vars
    \/ PollFill /\ UNCHANGED aux_vars
    \/ CancelAbort /\ UNCHANGED aux_vars
    \/ CancelRefresh /\ UNCHANGED aux_vars
    \/ PlaceRefresh /\ UNCHANGED aux_vars
    \/ VenueFill /\ UNCHANGED aux_vars

EngineSpec == EngineInit /\ [][EngineNext]_vars

-----------------------------------------------------------------------------
(* stream_l2_to_queue on its own: the frames of the socket, the keepalive,
   and a consumer that only takes quotes off the queue *)

all_vars == << vars, aux_vars >>

\* what the stream task leaves alone
run_vars == << chaser_vars, eng_pc, cur, run_pc, last_check, out, run_exc,
               orders, side, calls, step, dequeued >>

\* the inbound frames after json.loads: the channel and data.levels, a list
\* of sides, each a list of the prices of its levels, best first
Frames ==
    { [channel |-> "pong", levels |-> << >>],
      [channel |-> "trades", levels |-> << <<1003>>, <<1008>> >>],
      [channel |-> "l2Book", levels |-> << >>],
      [channel |-> "l2Book", levels |-> << <<1003>> >>],
      [channel |-> "l2Book", levels |-> << << >>, <<1008>> >>],
      [channel |-> "l2Book", levels |-> << <<1003>>, << >> >>],
      [channel |-> "l2Book", levels |-> << <<1003, 1002>>, <<1008, 1009>> >>],
      [channel |-> "l2Book", levels |-> << <<1007>>, <<1012, 1013>>, <<1>> >>] }

\* variant: the channel of the frame is not looked at
is_book_any_channel(msg) ==
    /\ Len(msg.levels) >= 2
    /\ msg.levels[1] # << >> /\ msg.levels[2] # << >>

\* lines 234-243: the three tests a frame passes before a Quote is built;
\* failing one is a continue
is_book(msg) ==
    /\ msg.channel = "l2Book"
    /\ Len(msg.levels) >= 2
    /\ msg.levels[1] # << >> /\ msg.levels[2] # << >>

\* lines 240-253: the Quote of a frame, from bids[0] and asks[0], stamped now
l2_quote(msg, now) ==
    [ts |-> now, bid_px |-> msg.levels[1][1], ask_px |-> msg.levels[2][1]]

\* the stream task at its read loop, the keepalive task just created
StreamInit ==
    /\ AuxInit
    /\ order_id = None /\ order_px = None
    /\ start_px = None /\ placed_ts = None
    /\ eng_pc = "ready" /\ cur = None
    /\ run_pc = "get" /\ last_check = 0 /\ out = "none" /\ run_exc = None
    /\ queue = << >>
    /\ stream_state = "running" /\ pending = None
    /\ cancel_requested = FALSE /\ ka = "send"
    /\ clock = 0 /\ msgs = 0
    /\ orders = << >>
    /\ side \in Sides
    /\ calls = << >> /\ step = NoStep /\ dequeued = << >>

\* lines 232-254: one frame of the socket; a Quote is put on the queue when
\* the frame passes the tests, and the loop goes on to the next frame
\* otherwise
StreamFrame ==
    /\ Reading
    /\ msgs < MaxMsgs
    /\ \E m \in Frames :
         /\ raw' = Some(m)
         /\ IF is_book(m)
            THEN IF Len(queue) < QueueMaxSize
                 THEN /\ queue' = Append(queue, l2_quote(m, clock))
                      /\ pending' = None
                 ELSE /\ pending' = Some(l2_quote(m, clock))
                      /\ UNCHANGED queue
            ELSE UNCHANGED << queue, pending >>
    /\ clock' = clock + 1
    /\ msgs' = msgs + 1
    /\ UNCHANGED << run_vars, stream_state, cancel_requested, ka,
                    _place_count, _cancel_count,
                    fn_px, fn_tick, fn_target, fn_status, fn_filled,
                    test_vars >>

\* line 227: the keepalive sends a ping and goes to sleep
KeepaliveSend ==
    /\ ka = "send"
    /\ ka' = "sleep"
    /\ UNCHANGED << run_vars, queue, stream_state, pending, cancel_requested,
                    clock, msgs, aux_vars >>

\* line 228: ping_interval seconds have passed
KeepaliveWake ==
    /\ ka = "sleep"
    /\ ka' = "send"
    /\ UNCHANGED << run_vars, queue, stream_state, pending, cancel_requested,
                    clock, msgs, aux_vars >>

\* the consumer's q.get()
QueueGet ==
    /\ queue # << >>
    /\ queue' = Tail(queue)
    /\ UNCHANGED << run_vars, stream_vars, cancel_requested, aux_vars >>

\* the consumer's stream_task.cancel()
StreamTaskCancel ==
    /\ stream_state = "running" /\ ~cancel_requested
    /\ stream_task_cancel
    /\ UNCHANGED << run_vars, queue, stream_vars, aux_vars >>

StreamNext ==
    \/ StreamFrame
    \/ StreamPut /\ UNCHANGED aux_vars
    \/ StreamEnd /\ UNCHANGED aux_vars
    \/ StreamCancelled /\ UNCHANGED aux_vars
    \/ KeepaliveSend
    \/ KeepaliveWake
    \/ QueueGet
    \/ StreamTaskCancel

StreamSpec == StreamInit /\ [][StreamNext]_all_vars

\* the event loop runs the keepalive task whenever it can run
FairStreamSpec ==
    /\ StreamSpec
    /\ WF_all_vars(KeepaliveSend)
    /\ WF_all_vars(KeepaliveWake)

-----------------------------------------------------------------------------
(* The engine over CountingLiveExchangeClient: test_limit_chase.py:52-76.
   place_limit and cancel of the wrapper add one to their counter and then
   await the same method of the wrapped gateway with the same arguments;
   poll_fill only forwards.  The counter moves when the engine makes the
   call, the wrapped gateway answers in the step after. *)

counters == << _place_count, _cancel_count >>
fn_vars == << fn_px, fn_tick, fn_target, fn_status, fn_filled >>

\* on_quote is called; without an order it calls place_limit (line 68)
CountingDirectCall ==
    /\ DirectCall
    /\ _place_count' = IF order_id = None THEN _place_count + 1 ELSE _place_count
    /\ UNCHANGED << _cancel_count, raw, fn_vars, test_vars >>

\* variant: a placement that returns no identifier is taken off the counter
CountingPlaceFirst_discounts_failure ==
    /\ PlaceFirst
    /\ _place_count' = IF order_id' = None THEN _place_count - 1 ELSE _place_count
    /\ UNCHANGED << _cancel_count, raw, fn_vars, test_vars >>

\* line 69: the wrapped place_limit returns
CountingPlaceFirst ==
    /\ PlaceFirst
    /\ UNCHANGED << counters, raw, fn_vars, test_vars >>

\* line 76: the wrapped poll_fill returns; when on_quote goes on to a cancel
\* it calls cancel (line 72)
CountingPollFill ==
    /\ PollFill
    /\ _cancel_count' = IF eng_pc' \in {"cancel_abort", "cancel_refresh"}
                        THEN _cancel_count + 1 ELSE _cancel_count
    /\ UNCHANGED << _place_count, raw, fn_vars, test_vars >>

\* line 73: the wrapped cancel of an abort returns
CountingCancelAbort ==
    /\ CancelAbort
    /\ UNCHANGED << counters, raw, fn_vars, test_vars >>

\* line 73: the wrapped cancel of a refresh returns and on_quote calls
\* place_limit (line 68)
CountingCancelRefresh ==
    /\ CancelRefresh
    /\ _place_count' = IF eng_pc' = "place_refresh"
                       THEN _place_count + 1 ELSE _place_count
    /\ UNCHANGED << _cancel_count, raw, fn_vars, test_vars >>

\* line 69: the wrapped place_limit of a refresh returns
CountingPlaceRefresh ==
    /\ PlaceRefresh
    /\ UNCHANGED << counters, raw, fn_vars, test_vars >>

CountingNext ==
    \/ CountingDirectCall
    \/ CountingPlaceFirst
    \/ CountingPollFill
    \/ CountingCancelAbort
    \/ CountingCancelRefresh
    \/ CountingPlaceRefresh
    \/ VenueFill /\ UNCHANGED aux_vars

CountingSpec == EngineInit /\ [][CountingNext]_all_vars

-----------------------------------------------------------------------------
(* _round_to_tick and poll_fill applied on their own.  Prices and tick sizes
   are binary floating-point numbers as in the code, here with a significand
   of FloatBits bits; a number is held as its count of units of 2^-FracBits. *)

\* bits of the significand
FloatBits == 4

\* bits after the binary point of the unit
FracBits == 8

\* the largest price, in whole price units
MaxPrice == 4

\* 1.0 in units
One == 2 ^ FracBits

\* the binade of n/d >= 1: the e with 2^e <= n/d < 2^(e+1)
RECURSIVE Log2(_, _)
Log2(n, d) == IF n < 2 * d THEN 0 ELSE 1 + Log2(n, 2 * d)

\* the spacing of the floating-point numbers around n/d units; below
\* 2^(FloatBits-1) units the spacing stays one unit
Ulp(n, d) ==
    LET e == IF n < d THEN 0 ELSE Log2(n, d)
    IN  IF e >= FloatBits - 1 THEN 2 ^ (e - (FloatBits - 1)) ELSE 1

\* n/d units rounded to the nearest floating-point number, ties to the even
\* significand: the result of one float operation whose exact value is n/d
RoundToFloat(n, d) ==
    LET u == Ulp(n, d)
        m == n \div (d * u)
        r == n - m * d * u
    IN  IF 2 * r < d * u THEN m * u
        ELSE IF 2 * r > d * u THEN (m + 1) * u
        ELSE IF m % 2 = 0 THEN m * u ELSE (m + 1) * u

\* the floating-point numbers of the price range
Floats == { x \in 1..(MaxPrice * One) : RoundToFloat(x, 1) = x }

\* tick sizes: the floats written 0.1, 0.3, 0.25 and 0.5
TickSizes ==
    { RoundToFloat(One, 10), RoundToFloat(3 * One, 10), One \div 4, One \div 2 }

\* _round_to_tick with its arithmetic: the float division px / tick_size,
\* math.floor of it, and the float product with tick_size
round_to_tick_float(px, tick_size) ==
    LET quotient == RoundToFloat(px * One, tick_size)
        floor == quotient \div One
    IN  RoundToFloat(floor * tick_size, 1)

\* what query_order_by_oid can answer: a raise, or a record with or without
\* a top-level status and with or without an order record holding a status
PollStatuses == { "filled", "open", "canceled", "order", "unknownOid" }

PollResponses ==
    { [raises |-> TRUE, top |-> None, nested |-> None] }
      \cup { [raises |-> FALSE, top |-> t, nested |-> n] :
               t \in { None } \cup { Some(st) : st \in PollStatuses },
               n \in { None } \cup { Some(st) : st \in PollStatuses } }

\* a price, a tick size and an answer of the venue, nothing computed yet
FnInit ==
    /\ order_id = None /\ order_px = None
    /\ start_px = None /\ placed_ts = None
    /\ eng_pc = "ready" /\ cur = None
    /\ run_pc = "direct" /\ last_check = 0 /\ out = "none" /\ run_exc = None
    /\ queue = << >>
    /\ stream_state = "absent" /\ pending = None
    /\ cancel_requested = FALSE /\ ka = "absent"
    /\ clock = 0 /\ msgs = 0
    /\ orders = << >>
    /\ side \in Sides
    /\ calls = << >> /\ step = NoStep /\ dequeued = << >>
    /\ raw = None /\ _place_count = 0 /\ _cancel_count = 0
    /\ fn_px \in Floats
    /\ fn_tick \in TickSizes
    /\ fn_status \in PollResponses
    /\ fn_target = None /\ fn_filled = None
    /\ history = << >> /\ first_ts = None /\ csv_row = None

\* target_px = self._round_to_tick(target_px), limit_chase.py:142
ApplyRoundToTick ==
    /\ fn_target = None
    /\ fn_target' = Some(round_to_tick_float(fn_px, fn_tick))
    /\ UNCHANGED << vars, raw, counters, fn_px, fn_tick, fn_status, fn_filled,
                    test_vars >>

\* filled = await self.ex.poll_fill(self.order_id), limit_chase.py:157
ApplyPollFill ==
    /\ fn_filled = None
    /\ fn_filled' = Some(poll_fill(fn_status))
    /\ UNCHANGED << vars, raw, counters, fn_px, fn_tick, fn_target, fn_status,
                    test_vars >>

FnNext ==
    \/ ApplyRoundToTick
    \/ ApplyPollFill

FnSpec == FnInit /\ [][FnNext]_all_vars


-----------------------------------------------------------------------------
(* The engine called directly, at a venue that honours every cancel:
   self.exchange.cancel answers "ok" (executor.py:289-291) *)

\* the cancel call recorded by the step was answered "ok"
CancelHonoured == \A i \in DOMAIN calls' : calls'[i].op = "cancel" => calls'[i].resp = "ok"

HonouredNext ==
    \/ DirectCall /\ UNCHANGED aux_vars
    \/ PlaceFirst /\ UNCHANGED aux_vars
    \/ PollFill /\ UNCHANGED aux_vars
    \/ CancelAbort /\ CancelHonoured /\ UNCHANGED aux_vars
    \/ CancelRefresh /\ CancelHonoured /\ UNCHANGED aux_vars
    \/ PlaceRefresh /\ UNCHANGED aux_vars
    \/ VenueFill /\ UNCHANGED aux_vars

HonouredSpec == EngineInit /\ [][HonouredNext]_vars

-----------------------------------------------------------------------------
(* The engine called directly, with every gateway call it makes kept in
   history: limit_chase.py:147, 157, 176, 188, 189 *)

\* what history keeps of a gateway call
HistoryEntry(c) ==
    [op |-> c.op, oid |-> c.oid, filled |-> (c.op = "poll" /\ c.resp = "filled")]

\* the call the step has recorded, if any, is added to history
Traced ==
    history' = IF Len(calls') > Len(calls)
               THEN Append(history, HistoryEntry(calls'[Len(calls')]))
               ELSE history

TracedNext ==
    \/ DirectCall /\ Traced /\ UNCHANGED << raw, counters, fn_vars, first_ts, csv_row >>
    \/ PlaceFirst /\ Traced /\ UNCHANGED << raw, counters, fn_vars, first_ts, csv_row >>
    \/ PollFill /\ Traced /\ UNCHANGED << raw, counters, fn_vars, first_ts, csv_row >>
    \/ CancelAbort /\ Traced /\ UNCHANGED << raw, counters, fn_vars, first_ts, csv_row >>
    \/ CancelRefresh /\ Traced /\ UNCHANGED << raw, counters, fn_vars, first_ts, csv_row >>
    \/ PlaceRefresh /\ Traced /\ UNCHANGED << raw, counters, fn_vars, first_ts, csv_row >>
    \/ VenueFill /\ UNCHANGED aux_vars

TracedSpec == EngineInit /\ [][TracedNext]_all_vars

-----------------------------------------------------------------------------
(* run() of test_limit_chase.py: the run loop of limit_chase_usage.py over
   the counting gateway, with first_ts and the stats row written at the
   terminal outcome (lines 125-207) *)

\* _append_stats: the row of the CSV file, num_refresh = num_place - 1; the
\* configuration columns and the wall-clock timestamp are left out
_append_stats(outcome, duration_ms, num_place, num_cancel) ==
    [outcome |-> outcome, duration_ms |-> duration_ms,
     num_place |-> num_place, num_cancel |-> num_cancel,
     num_refresh |-> num_place - 1]

\* lines 179-194: on a terminal outcome of on_quote the consumer appends the
\* stats; duration_ms = now - (first_ts or now)
StatsAtOutcome ==
    csv_row' =
        IF eng_pc # "ready" /\ eng_pc' = "ready" /\ run_exc' = run_exc
           /\ out' \in Terminal
        THEN LET now == Val(cur).ts
                 first == IF first_ts = None \/ Val(first_ts) = 0
                          THEN now ELSE Val(first_ts)
             IN  Some(_append_stats(out', now - first,
                                    _place_count', _cancel_count'))
        ELSE csv_row

\* lines 164-171: a quote that passes the throttle sets first_ts once and is
\* given to on_quote, whose Idle branch calls place_limit of the wrapper
TestDispatch ==
    /\ ConsumerDispatch
    /\ first_ts' = IF first_ts = None THEN Some(Head(queue).ts) ELSE first_ts
    /\ _place_count' = IF order_id = None THEN _place_count + 1 ELSE _place_count
    /\ UNCHANGED << _cancel_count, raw, fn_vars, history, csv_row >>

TestPlaceFirst ==
    /\ PlaceFirst
    /\ UNCHANGED << counters, raw, fn_vars, first_ts >>
    /\ Traced /\ StatsAtOutcome

TestPollFill ==
    /\ PollFill
    /\ _cancel_count' = IF eng_pc' \in {"cancel_abort", "cancel_refresh"}
                        THEN _cancel_count + 1 ELSE _cancel_count
    /\ UNCHANGED << _place_count, raw, fn_vars, first_ts >>
    /\ Traced /\ StatsAtOutcome

TestCancelAbort ==
    /\ CancelAbort
    /\ UNCHANGED << counters, raw, fn_vars, first_ts >>
    /\ Traced /\ StatsAtOutcome

TestCancelRefresh ==
    /\ CancelRefresh
    /\ _place_count' = IF eng_pc' = "place_refresh"
                       THEN _place_count + 1 ELSE _place_count
    /\ UNCHANGED << _cancel_count, raw, fn_vars, first_ts >>
    /\ Traced /\ StatsAtOutcome

TestPlaceRefresh ==
    /\ PlaceRefresh
    /\ UNCHANGED << counters, raw, fn_vars, first_ts >>
    /\ Traced /\ StatsAtOutcome

TestRunNext ==
    \/ ConsumerDiscard /\ UNCHANGED aux_vars
    \/ TestDispatch
    \/ TestPlaceFirst
    \/ TestPollFill
    \/ TestCancelAbort
    \/ TestCancelRefresh
    \/ TestPlaceRefresh
    \/ AwaitStreamTask /\ UNCHANGED aux_vars
    \/ StreamRecv /\ UNCHANGED aux_vars
    \/ StreamPut /\ UNCHANGED aux_vars
    \/ StreamEnd /\ UNCHANGED aux_vars
    \/ StreamCancelled /\ UNCHANGED aux_vars
    \/ VenueFill /\ UNCHANGED aux_vars

TestRunSpec == Init /\ [][TestRunNext]_all_vars

\* The scheduling of the program: the event loop runs every task that can
\* run, and a gateway call returns.  Inbound messages, the loss of the
\* connection and fills at the venue are the environment's to give or not.
RunLoopStep ==
    \/ ConsumerDiscard \/ ConsumerDispatch \/ PlaceFirst \/ PollFill
    \/ CancelAbort \/ CancelRefresh \/ PlaceRefresh \/ AwaitStreamTask

StreamTaskStep == StreamPut \/ StreamCancelled

FairSpec == Spec /\ WF_vars(RunLoopStep) /\ WF_vars(StreamTaskStep)

-----------------------------------------------------------------------------
(* Properties *)

AllAbsent ==
    order_id = None /\ order_px = None /\ start_px = None /\ placed_ts = None

AllPresent ==
    order_id # None /\ order_px # None /\ start_px # None /\ placed_ts # None

\* on_quote is not in progress: the last step, if any, has returned
BetweenSteps == eng_pc = "ready"

\* the last step started Resting and its fill poll was negative
RestingNotFilled ==
    /\ step.order_id # None
    /\ calls # << >>
    /\ calls[1].op = "poll" /\ calls[1].resp = "not_filled"

StepTotalChaseTicks == Abs(step.target - Val(step.start_px)) \div TICK_SIZE
StepDriftTicks == Abs(step.target - Val(step.order_px)) \div TICK_SIZE

\* C1: in every on_quote step, each place_limit call is made either in a
\* step that started Idle, or after a cancel call of the same step for the
\* order_id tracked at the start of the step.
C1_PlaceOnlyIdleOrAfterCancel ==
    \A i \in DOMAIN calls :
        calls[i].op = "place" =>
            \/ step.order_id = None
            \/ \E j \in 1..(i - 1) :
                   calls[j].op = "cancel" /\ calls[j].oid = step.order_id

\* C1 witness: a step that started Resting has cancelled and then placed
C1_Witness ==
    /\ BetweenSteps /\ step.order_id # None
    /\ Len(calls) = 3 /\ calls[2].op = "cancel" /\ calls[3].op = "place"

\* C2 (as claimed): whenever on_quote has returned, the four state fields
\* are all absent or all present.
C2_AllOrNothingBetweenSteps ==
    BetweenSteps => (AllAbsent \/ AllPresent)

\* C3: after a step that returned filled or aborted, order_id, order_px,
\* start_px and placed_ts are all absent.
C3_ResetAtomic ==
    (BetweenSteps /\ out \in Terminal) => AllAbsent

\* C3 witness: a step on a tracked order has returned a terminal outcome
C3_Witness ==
    /\ BetweenSteps /\ out \in Terminal
    /\ step.order_id # None /\ step.placed_ts # None

\* C4: a Resting step with a negative fill poll and more than
\* MAX_CHASE_TICKS ticks from start_px makes exactly the calls poll, cancel
\* (of the tracked order), places nothing, ends Idle and returns aborted,
\* whatever the refresh condition; at exactly MAX_CHASE_TICKS it does not
\* abort.
C4_AbortPrecedence ==
    (BetweenSteps /\ RestingNotFilled) =>
        /\ StepTotalChaseTicks > MAX_CHASE_TICKS =>
              /\ Len(calls) = 2
              /\ calls[2].op = "cancel" /\ calls[2].oid = step.order_id
              /\ AllAbsent
              /\ out = "aborted"
        /\ StepTotalChaseTicks = MAX_CHASE_TICKS => out # "aborted"

\* C4 witness: an abort in a step whose refresh condition held as well
C4_Witness ==
    /\ BetweenSteps /\ RestingNotFilled
    /\ StepTotalChaseTicks > MAX_CHASE_TICKS
    /\ StepDriftTicks >= TOLERANCE_TICKS
    /\ step.now - Val(step.placed_ts) >= MAX_AGE_MS
    /\ out = "aborted"

\* the venue answered a placement of the current step with the
\* account-not-initialized error
AccountRejected ==
    \E i \in DOMAIN calls :
        calls[i].op = "place" /\ calls[i].resp = "err_not_exist"

\* C5 (as claimed): when the venue rejects a placement with the
\* account-not-initialized error, the failure leaves on_quote and the
\* consumer loop; the step does not end as a placement without identifier.
C5_AccountErrorPropagates ==
    AccountRejected =>
        /\ run_pc \in {"await_stream", "raised"}
        /\ run_exc # None

\* C6 (as claimed): when the account-not-initialized failure reaches the
\* run loop, the stream task is cancelled and the run loop is on its way
\* out, raising once the task is done.
C6_AccountErrorCancelsStream ==
    AccountRejected =>
        /\ cancel_requested \/ stream_state # "running"
        /\ run_pc \in {"await_stream", "raised"}
        /\ run_pc = "raised" => stream_state # "running"

\* C7 (as claimed): after the first terminal outcome the run loop cancels
\* the stream task, waits for it and returns that outcome: it takes no
\* further quote, it ends only by returning, and it returns only a terminal
\* outcome with the stream task done.
C7_TerminalOutcomeReturned ==
    /\ out \in Terminal =>
          /\ run_pc \in {"await_stream", "returned"}
          /\ BetweenSteps
    /\ run_pc = "returned" =>
          /\ out \in Terminal
          /\ stream_state # "running"

ConnectionLost == stream_state \in {"ended", "failed"}
RunEnded == run_pc \in {"returned", "raised"}

\* C8 (as claimed): once the connection is lost the run ends.
C8_ConnectionLossEndsRun == ConnectionLost ~> RunEnded

\* the first four quotes dequeued are stamped 0, 100, 400, 600
ThrottleScenario ==
    /\ Len(dequeued) >= 4
    /\ [i \in 1..4 |-> dequeued[i].ts] = << 0, 100, 400, 600 >>

\* C9 (as claimed): of the quotes stamped 0, 100, 400, 600 exactly those
\* stamped 0 and 600 are dispatched.
C9_Dispatches0And600 ==
    ThrottleScenario =>
        [i \in 1..4 |-> dequeued[i].dispatched] = << TRUE, FALSE, FALSE, TRUE >>

\* C9 (amended): with last_check starting at 0, of the quotes stamped 0, 100,
\* 400, 600 only the one stamped 600 is dispatched; the quote stamped 0 is
\* discarded like 100 and 400.
C9_DispatchesOnly600 ==
    ThrottleScenario =>
        [i \in 1..4 |-> dequeued[i].dispatched] = << FALSE, FALSE, FALSE, TRUE >>

\* C9 witness: the four quotes were dequeued and the step for 600 returned
C9_Witness == ThrottleScenario /\ BetweenSteps /\ last_check = 600

\* the timestamp of the last quote dispatched before the i-th dequeued one,
\* 0 when there is none
LastDispatchBefore(i) ==
    LET S == { j \in 1..(i - 1) : dequeued[j].dispatched }
    IN  IF S = {} THEN 0
        ELSE dequeued[CHOOSE j \in S : \A k \in S : k <= j].ts

\* C10: a dequeued quote is dispatched exactly when its timestamp is at
\* least REFRESH_INTERVAL_MS after that of the previous dispatched quote (0
\* before the first): consecutive dispatched quotes are at least the
\* interval apart, and the first quote that qualifies is the one dispatched.
C10_FirstQualifyingDispatched ==
    \A i \in DOMAIN dequeued :
        dequeued[i].dispatched <=>
            dequeued[i].ts - LastDispatchBefore(i) >= REFRESH_INTERVAL_MS

\* C10 witness: two dispatched quotes with a discarded one between them
C10_Witness ==
    \E i, j, k \in DOMAIN dequeued :
        /\ i < j /\ j < k
        /\ dequeued[i].dispatched /\ ~dequeued[j].dispatched
        /\ dequeued[k].dispatched

\* the run loop takes a quote from the queue in this step
Dequeues == Len(dequeued') = Len(dequeued) + 1

\* the quote the run loop takes is inside the refresh interval
HeadInsideInterval ==
    queue # << >> /\ Head(queue).ts - last_check < REFRESH_INTERVAL_MS

\* C11: a step of the run loop that takes a quote stamped less than
\* REFRESH_INTERVAL_MS after last_check does not enter on_quote, makes no
\* gateway call, and leaves last_check and the four fields of the chaser as
\* they were
C11_DiscardChangesNothing ==
    [][(Dequeues /\ HeadInsideInterval) =>
         /\ eng_pc' = "ready" /\ eng_pc = "ready"
         /\ run_pc' = "get"
         /\ UNCHANGED << calls, step, orders, cur >>
         /\ UNCHANGED last_check
         /\ UNCHANGED chaser_vars]_vars

\* a quote has been discarded while an order was resting
C11_Witness ==
    /\ dequeued # << >>
    /\ ~dequeued[Len(dequeued)].dispatched
    /\ dequeued[Len(dequeued)].ts - last_check < REFRESH_INTERVAL_MS
    /\ BetweenSteps
    /\ AllPresent

\* the last step started with no order tracked and has made a gateway call
IdleStep == step.order_id = None /\ calls # << >>

\* the best price of the chaser's side in the quote of the last step, on the
\* tick grid
StepSideBest ==
    LET best == IF side = "buy" THEN step.bid_px ELSE step.ask_px
    IN  best - (best % TICK_SIZE)

\* C12: a step that starts Idle and whose placement returns an identifier
\* makes exactly one gateway call, a place_limit of ORDER_SIZE on the
\* chaser's side at the tick-rounded best bid (buy) or best ask (sell), and
\* ends with start_px = order_px = that price, placed_ts = the quote's
\* timestamp and order_id = the returned identifier, returning none
C12_IdlePlacement ==
    (BetweenSteps /\ IdleStep /\ calls[1].oid # None) =>
        /\ Len(calls) = 1
        /\ calls[1].op = "place"
        /\ calls[1].px = StepSideBest
        /\ calls[1].size = ORDER_SIZE
        /\ calls[1].side = side
        /\ start_px = Some(StepSideBest)
        /\ order_px = Some(StepSideBest)
        /\ placed_ts = Some(step.now)
        /\ order_id = calls[1].oid
        /\ IntOf(Val(order_id)) = Len(orders)
        /\ orders[Len(orders)].px = StepSideBest
        /\ out = "none" /\ run_exc = None /\ run_pc = "get"

\* a sell chaser has placed its first order at the best ask
C12_Witness ==
    /\ BetweenSteps /\ IdleStep /\ calls[1].oid # None
    /\ side = "sell"
    /\ order_px = Some(_round_to_tick(step.ask_px))
    /\ step.ask_px # step.bid_px

\* the last step started with no order tracked after a placement that
\* returned no identifier: placed_ts is stamped by that placement and no
\* _reset has run since
StepAfterFailedPlacement == step.order_id = None /\ step.placed_ts # None

\* C13: a step that starts Idle and whose placement returns no identifier
\* makes that one call, leaves no order tracked and returns none without
\* raising; the step of the next dispatched quote goes to place_limit again,
\* at the target price of its own quote
C13_FailedPlacementRetried ==
    /\ (BetweenSteps /\ IdleStep /\ calls[1].oid = None) =>
          /\ Len(calls) = 1 /\ calls[1].op = "place"
          /\ order_id = None
          /\ out = "none" /\ run_exc = None /\ run_pc = "get"
    /\ (StepAfterFailedPlacement /\ ~BetweenSteps) =>
          /\ eng_pc = "place_first"
          /\ calls = << >>
    /\ (StepAfterFailedPlacement /\ BetweenSteps) =>
          /\ Len(calls) = 1 /\ calls[1].op = "place"
          /\ calls[1].px = StepSideBest
          /\ calls[1].size = ORDER_SIZE /\ calls[1].side = side

\* after a placement that returned no identifier, the next dispatched quote
\* has placed an order at another price
C13_Witness ==
    /\ BetweenSteps /\ StepAfterFailedPlacement
    /\ step.start_px = step.order_px
    /\ step.now > Val(step.placed_ts)
    /\ calls # << >> /\ calls[1].op = "place" /\ calls[1].oid # None
    /\ calls[1].px # Val(step.order_px)

\* the last step started with an order tracked and has made a gateway call
RestingStep == step.order_id # None /\ calls # << >>

\* C14: a step that starts Resting polls the fill of the tracked order before
\* any other gateway call; when the poll says filled the step makes no other
\* call and returns filled with the state reset, whatever the drift, the age
\* and the total chase; and the next quote given to the same engine starts
\* from Idle, with start_px the target price of that quote
C14_FillFirstThenNewChase ==
    /\ RestingStep =>
          /\ calls[1].op = "poll"
          /\ calls[1].oid = step.order_id
    /\ (RestingStep /\ calls[1].resp = "filled") =>
          /\ Len(calls) = 1
          /\ BetweenSteps
          /\ out = "filled" /\ run_exc = None
          /\ AllAbsent
    /\ (out = "filled" /\ ~BetweenSteps) =>
          /\ step.order_id = None /\ step.start_px = None
          /\ step.order_px = None /\ step.placed_ts = None
          /\ eng_pc = "place_first"
          /\ start_px = Some(StepSideBest)
          /\ order_px = Some(StepSideBest)

\* after a fill the same engine has been given a quote at another price and
\* is placing the first order of a new chase
C14_Witness ==
    /\ out = "filled" /\ eng_pc = "place_first"
    /\ start_px = Some(StepSideBest)
    /\ Len(orders) >= 1
    /\ orders[Len(orders)].status = "filled"
    /\ orders[Len(orders)].px # StepSideBest

\* a fill is reported in a step where the abort condition holds
C14_FilledDespiteAbortCondition ==
    /\ BetweenSteps /\ RestingStep /\ calls[1].resp = "filled"
    /\ StepTotalChaseTicks > MAX_CHASE_TICKS

StepAgeMs == step.now - Val(step.placed_ts)

\* the last step has returned; it started Resting, its poll was negative,
\* the total chase was within MAX_CHASE_TICKS, and the drift had reached
\* TOLERANCE_TICKS or the age MAX_AGE_MS
RefreshCase ==
    /\ BetweenSteps /\ RestingNotFilled
    /\ StepTotalChaseTicks <= MAX_CHASE_TICKS
    /\ (StepDriftTicks >= TOLERANCE_TICKS \/ StepAgeMs >= MAX_AGE_MS)

\* C15: such a step cancels the tracked order, then places one order of
\* ORDER_SIZE on the chaser's side at the target price, sets order_px to the
\* target and placed_ts to the quote's timestamp, keeps start_px, and
\* returns none
C15_Refresh ==
    RefreshCase =>
        /\ Len(calls) = 3
        /\ calls[2].op = "cancel" /\ calls[2].oid = step.order_id
        /\ calls[3].op = "place"
        /\ calls[3].px = StepSideBest
        /\ calls[3].size = ORDER_SIZE /\ calls[3].side = side
        /\ order_px = Some(StepSideBest)
        /\ placed_ts = Some(step.now)
        /\ start_px = step.start_px
        /\ order_id = calls[3].oid
        /\ out = "none" /\ run_exc = None

\* an order has been refreshed for its age alone, at exactly MAX_AGE_MS and
\* with no drift
C15_Witness ==
    /\ RefreshCase
    /\ StepDriftTicks = 0 /\ StepAgeMs = MAX_AGE_MS
    /\ Len(calls) = 3 /\ calls[3].oid # None

\* an order has been refreshed for its drift alone, at exactly
\* TOLERANCE_TICKS
C15_RefreshedAtTolerance ==
    /\ RefreshCase
    /\ StepDriftTicks = TOLERANCE_TICKS /\ StepAgeMs < MAX_AGE_MS

\* the last step has returned; it started Resting, its poll was negative,
\* and the total chase, the drift and the age were all inside their limits
NoActionCase ==
    /\ BetweenSteps /\ RestingNotFilled
    /\ StepTotalChaseTicks <= MAX_CHASE_TICKS
    /\ StepDriftTicks < TOLERANCE_TICKS
    /\ StepAgeMs < MAX_AGE_MS

\* C16: such a step makes no cancel and no place_limit call, leaves the four
\* fields of the chaser as they were, and returns none
C16_NoAction ==
    NoActionCase =>
        /\ Len(calls) = 1
        /\ order_id = step.order_id
        /\ order_px = step.order_px
        /\ start_px = step.start_px
        /\ placed_ts = step.placed_ts
        /\ out = "none" /\ run_exc = None

\* a resting order has been left alone by a step that came more than
\* REFRESH_INTERVAL_MS after its placement
C16_Witness ==
    /\ NoActionCase
    /\ AllPresent
    /\ StepAgeMs > REFRESH_INTERVAL_MS

\* C17: every order placed in a chase is within MAX_CHASE_TICKS ticks of the
\* first order of that chase.  A run of run() ends at its first terminal
\* outcome, so the orders the venue accepted in a run are those of one chase,
\* and the first of them is the first order of the chase.
C17_OrdersWithinMaxChase ==
    \A i \in DOMAIN orders :
        Abs(orders[i].px - orders[1].px) \div TICK_SIZE <= MAX_CHASE_TICKS

\* the positions of the cancel calls of the last step
CancelCalls == { i \in DOMAIN calls : calls[i].op = "cancel" }

\* the venue did not cancel in the last step: it answered with an error or
\* the request raised
CancelFailed == \E i \in CancelCalls : calls[i].resp # "ok"

\* no exception has come out of on_quote: the only exception run() can hold
\* is the one of the stream task, taken up after the loop
StepDidNotRaise == run_exc = None \/ run_exc = Some("StreamError")

\* C18: a step whose cancel fails at the venue makes that one cancel call
\* and does not raise; on an abort it resets the chaser and returns aborted,
\* on a refresh it goes on to place_limit
C18_CancelFailureIgnored ==
    CancelFailed =>
        /\ Cardinality(CancelCalls) = 1
        /\ calls[2].op = "cancel" /\ calls[2].oid = step.order_id
        /\ StepDidNotRaise
        /\ IF StepTotalChaseTicks > MAX_CHASE_TICKS
           THEN /\ BetweenSteps
                /\ Len(calls) = 2
                /\ AllAbsent
                /\ out = "aborted"
           ELSE IF BetweenSteps
                THEN /\ Len(calls) = 3
                     /\ calls[3].op = "place" /\ calls[3].px = StepSideBest
                     /\ out = "none"
                ELSE /\ Len(calls) = 2
                     /\ eng_pc = "place_refresh"

\* an abort has gone through although the cancel request raised
C18_Witness ==
    /\ BetweenSteps
    /\ Len(calls) = 2 /\ calls[2].op = "cancel" /\ calls[2].resp = "raises"
    /\ out = "aborted" /\ AllAbsent
    /\ orders[IntOf(Val(step.order_id))].status = "open"

\* C19: while an on_quote step is in progress it is the one the run loop is
\* awaiting; the producer may append to the queue, and the run loop takes no
\* quote off the queue and starts no other step until this one has returned
C19_OneStepAtATime ==
    [][eng_pc # "ready" =>
         /\ run_pc = "on_quote"
         /\ dequeued' = dequeued
         /\ Len(queue') >= Len(queue)
         /\ SubSeq(queue', 1, Len(queue)) = queue
         /\ step' = step
         /\ (cur' = cur \/ (cur' = None /\ eng_pc' = "ready"))
         /\ (eng_pc' = "ready" => run_pc' # "on_quote")]_vars

\* while a step is suspended in a gateway call the producer has filled the
\* queue, which had room when the quote of the step was taken off it
C19_Witness ==
    /\ eng_pc # "ready"
    /\ Len(queue) = QueueMaxSize
    /\ queue[1].ts > Val(cur).ts

\* the queue gains one quote at its tail
Enqueued == Len(queue') = Len(queue) + 1 /\ SubSeq(queue', 1, Len(queue)) = queue

\* the run loop takes the quote at the head of the queue
TakenByConsumer ==
    /\ queue # << >> /\ queue' = Tail(queue)
    /\ Len(dequeued') = Len(dequeued) + 1
    /\ dequeued'[Len(dequeued')].ts = Head(queue).ts

\* C20: the queue never holds more than its capacity; a put on a full queue
\* leaves the queue as it is and keeps the producer's quote waiting, and the
\* quote goes in only once there is room; a quote leaves the queue only by
\* the run loop taking it from the head, and no quote in the queue is
\* replaced
C20_BoundedBlockingQueue ==
    [][/\ Len(queue) <= QueueMaxSize /\ Len(queue') <= QueueMaxSize
       /\ (queue' # queue) => (Enqueued \/ TakenByConsumer)
       /\ (pending = None /\ pending' # None) =>
             (Len(queue) = QueueMaxSize /\ queue' = queue)
       /\ (pending # None /\ Len(queue) = QueueMaxSize) =>
             (pending' = pending \/ stream_state' = "cancelled")
       /\ (pending # None /\ pending' = None /\ stream_state' = "running") =>
             queue' = Append(queue, Val(pending))]_vars

\* the producer is blocked in its put on a full queue
C20_Witness ==
    /\ Len(queue) = QueueMaxSize
    /\ pending # None
    /\ stream_state = "running" /\ ~cancel_requested

\* the publication stamps of the quotes the run loop has taken, in the order
\* it took them, followed by those still in the queue and by the one the
\* producer is waiting to put
DeliveryOrder ==
    [i \in 1..Len(dequeued) |-> dequeued[i].ts]
      \o [i \in 1..Len(queue) |-> queue[i].ts]
      \o [i \in 1..Len(pending) |-> pending[i].ts]

\* the stamps of the quotes handed to on_quote, in the order of the calls
DispatchedOrder ==
    LET IsDispatched(d) == d.dispatched
        ds == SelectSeq(dequeued, IsDispatched)
    IN  [i \in 1..Len(ds) |-> ds[i].ts]

\* s is in the order of publication: the producer stamps each quote later
\* than the one before
InPublicationOrder(s) == \A i, j \in 1..Len(s) : i < j => s[i] < s[j]

\* C21: the run loop takes the quotes in the order the producer put them, so
\* the quotes taken so far, then the queue from head to tail, then the quote
\* waiting to be put, are in publication order, and the quotes handed to
\* on_quote are a subsequence of the published ones in the same order
C21_FifoDelivery ==
    /\ InPublicationOrder(DeliveryOrder)
    /\ InPublicationOrder(DispatchedOrder)
    /\ \A i \in 1..Len(DispatchedOrder) :
          \E j \in 1..Len(dequeued) :
              dequeued[j].ts = DispatchedOrder[i] /\ dequeued[j].dispatched

\* two quotes were handed to on_quote and one was discarded before on_quote,
\* while the producer has put a further quote
C21_Witness ==
    /\ Len(DispatchedOrder) >= 2
    /\ \E i \in 1..Len(dequeued) : ~dequeued[i].dispatched
    /\ queue # << >>

\* a step in which the keepalive sends a ping
PingSent == ka = "send" /\ ka' = "sleep"

\* C22: as long as the stream task runs, its keepalive is alive and goes on
\* from each ping to its sleep and from each sleep to the next ping; when
\* the task has ended, by the end of the read loop, by its failure or by
\* cancellation, the keepalive is cancelled, stays cancelled, and no ping is
\* sent
C22_KeepaliveLifetime ==
    /\ [](stream_state = "running" => ka \in {"send", "sleep"})
    /\ [](stream_state # "running" => ka = "cancelled")
    /\ [][(stream_state # "running" \/ ka = "cancelled") =>
            (~PingSent /\ ka' = "cancelled")]_all_vars
    /\ [](ka = "send" => <>(ka # "send"))
    /\ [](ka = "sleep" => <>(ka # "sleep"))

\* the read loop has ended on a lost connection, with frames handled before,
\* and the keepalive is cancelled
C22_Witness ==
    /\ stream_state \in {"ended", "failed"}
    /\ ka = "cancelled"
    /\ msgs >= 2
    /\ ~cancel_requested

\* a step that handles one frame of the socket
FrameHandled == msgs' = msgs + 1

\* the frame is an l2Book message with at least one bid level and at least
\* one ask level
HasBidAndAsk(msg) ==
    /\ msg.channel = "l2Book"
    /\ Len(msg.levels) >= 2
    /\ Len(msg.levels[1]) >= 1 /\ Len(msg.levels[2]) >= 1

\* C23: a frame that is an l2Book message with a bid level and an ask level
\* makes the stream task put exactly one Quote, with the price at index 0 of
\* each side, at the tail of the queue (or hold it in the put when the queue
\* is full); any other frame puts nothing, and in both cases the task stays
\* in its read loop
C23_OneQuotePerBook ==
    [][FrameHandled =>
         LET msg == Val(raw')
             q == [ts |-> clock, bid_px |-> Head(msg.levels[1]),
                   ask_px |-> Head(msg.levels[2])]
         IN  /\ stream_state' = "running" /\ ka' = ka
             /\ IF HasBidAndAsk(msg)
                THEN \/ queue' = Append(queue, q) /\ pending' = None
                     \/ /\ Len(queue) = QueueMaxSize
                        /\ queue' = queue /\ pending' = Some(q)
                ELSE queue' = queue /\ pending' = None /\ pending = None]_all_vars

\* the last frame was of another channel and published nothing, after a book
\* with two levels a side was published from index 0
C23_Witness ==
    /\ raw # None /\ Val(raw).channel = "trades"
    /\ Len(queue) = 1 /\ queue[1].bid_px = 1003 /\ queue[1].ask_px = 1008
    /\ msgs >= 2
    /\ stream_state = "running"

\* a step of the engine over the wrapped gateway alone
EngineStep ==
    \/ DirectCall
    \/ PlaceFirst
    \/ PollFill
    \/ CancelAbort
    \/ CancelRefresh
    \/ PlaceRefresh
    \/ VenueFill

\* on_quote makes a call of place_limit, of cancel
PlaceCallMade == eng_pc' \in {"place_first", "place_refresh"} /\ eng_pc' # eng_pc
CancelCallMade == eng_pc' \in {"cancel_abort", "cancel_refresh"} /\ eng_pc' # eng_pc

BuyStepDone(bid) ==
    /\ side = "buy" /\ BetweenSteps /\ calls # << >>
    /\ step.bid_px = bid
    /\ \A i \in DOMAIN calls :
          /\ calls[i].op = "poll" => calls[i].resp = "not_filled"
          /\ calls[i].op = "place" => calls[i].oid # None

\* C25: a buy chaser with tick 0.5, tolerance 1, max age 5000 ms and max chase
\* 10 ticks, whose placements succeed and whose order is not filled.  From
\* Idle, a best bid of 100.3 places at 100.0.  With that order resting and
\* start price 100.0, a best bid of 100.7 200 ms later cancels it and places
\* at 100.5, the start price staying 100.0.  With that order resting, a best
\* bid of 106.0 is 12 ticks from the start price: the order is cancelled,
\* nothing is placed, and the step returns aborted with the state reset
C25_ChaseScenario ==
    /\ (BuyStepDone(1003) /\ step.order_id = None) =>
          /\ Len(calls) = 1 /\ calls[1].op = "place" /\ calls[1].px = 1000
          /\ order_px = Some(1000) /\ start_px = Some(1000)
          /\ order_id = calls[1].oid
          /\ out = "none"
    /\ (/\ BuyStepDone(1007) /\ step.order_id # None
        /\ step.order_px = Some(1000) /\ step.start_px = Some(1000)
        /\ step.now = Val(step.placed_ts) + 200) =>
          /\ Len(calls) = 3
          /\ calls[1].op = "poll" /\ calls[1].oid = step.order_id
          /\ calls[2].op = "cancel" /\ calls[2].oid = step.order_id
          /\ calls[3].op = "place" /\ calls[3].px = 1005
          /\ order_px = Some(1005) /\ start_px = Some(1000)
          /\ order_id = calls[3].oid
          /\ out = "none"
    /\ (/\ BuyStepDone(1060) /\ step.order_id # None
        /\ step.order_px = Some(1005) /\ step.start_px = Some(1000)) =>
          /\ StepTotalChaseTicks = 12
          /\ Len(calls) = 2
          /\ calls[1].op = "poll" /\ calls[1].oid = step.order_id
          /\ calls[2].op = "cancel" /\ calls[2].oid = step.order_id
          /\ out = "aborted" /\ run_exc = None
          /\ AllAbsent

\* the third step of the scenario has returned: the order placed at 100.5
\* 200 ms after the first one was tracked when the bid came at 106.0
C25_Witness ==
    /\ BuyStepDone(1060)
    /\ step.order_px = Some(1005) /\ step.start_px = Some(1000)
    /\ step.placed_ts = Some(200)
    /\ TICK_SIZE = 5 /\ TOLERANCE_TICKS = 1
    /\ MAX_AGE_MS = 5000 /\ MAX_CHASE_TICKS = 10

\* C26: the target of _round_to_tick is floor(price / tick_size) * tick_size:
\* a multiple of the tick size, not above the price, less than one tick
\* below it; and rounding the target again returns the target
C26_FloorToTick ==
    fn_target # None =>
        LET t == Val(fn_target)
        IN  /\ t = (fn_px \div fn_tick) * fn_tick
            /\ t % fn_tick = 0
            /\ t <= fn_px
            /\ fn_px - t < fn_tick
            /\ round_to_tick_float(t, fn_tick) = t

\* with a tick size that is a power of two the float computation is the
\* exact one
C26_ExactOnBinaryTicks ==
    (fn_target # None /\ fn_tick \in { One \div 4, One \div 2 }) =>
        LET t == Val(fn_target)
        IN  /\ t = (fn_px \div fn_tick) * fn_tick
            /\ round_to_tick_float(t, fn_tick) = t

\* the answer marks the order filled, at the top level or in the order record
MarkedFilled(resp) ==
    /\ ~resp.raises
    /\ (resp.top = Some("filled") \/ resp.nested = Some("filled"))

\* C27: poll_fill is true exactly when the answer of the venue marks the
\* order filled, at the top level or in the nested order record; no answer
\* or any other status gives false
C27_PollFillIffMarkedFilled ==
    fn_filled # None => (Val(fn_filled) <=> MarkedFilled(fn_status))

\* the orders of the venue that were filled
FilledOrders == { i \in DOMAIN orders : orders[i].status = "filled" }

\* C28: of the orders placed in one chase at most one is ever filled, also
\* when the venue fills the resting order between the negative poll and the
\* cancel of a refresh.  A run of run() is one chase, so the orders of the
\* venue are those of the chase
C28_AtMostOneFill == Cardinality(FilledOrders) <= 1

\* the orders of the engine that are open at the venue
OpenOrders == { i \in DOMAIN orders : orders[i].status = "open" }

\* C29: at a venue that honours every cancel, and where a placement that
\* returned no identifier placed nothing, at most one order of the engine is
\* open at any moment
C29_AtMostOneOpen == Cardinality(OpenOrders) <= 1

\* the venue has cancelled the first order of the engine, and the engine,
\* Idle again after it, has placed another order that is open and tracked
C29_Witness ==
    /\ BetweenSteps /\ step.order_id = None
    /\ Len(orders) >= 2
    /\ orders[1].status = "canceled"
    /\ orders[Len(orders)].status = "open"
    /\ order_id # None

\* the distance of the tracked order from the start of its chase, in ticks
ChasedTicks == Abs(Val(order_px) - Val(start_px)) \div TICK_SIZE

\* C30: whenever the engine is Resting between steps, the price of its order
\* is at most MAX_CHASE_TICKS ticks from the start price of the chase
C30_RestingWithinMaxChase ==
    (BetweenSteps /\ order_id # None) => ChasedTicks <= MAX_CHASE_TICKS

\* an order rests exactly MAX_CHASE_TICKS ticks from the start price
C30_Witness ==
    /\ BetweenSteps /\ order_id # None
    /\ ChasedTicks = MAX_CHASE_TICKS

\* C32: a step that starts Idle returns none, so filled and aborted come only
\* from steps that start Resting; an order the venue filled at its placement
\* is tracked when the placing step returns, and is reported filled by a
\* later step that polls it
C32_IdleStepReturnsNone ==
    /\ (BetweenSteps /\ IdleStep /\ StepDidNotRaise) => out = "none"
    /\ out \in Terminal =>
          /\ step.order_id # None
          /\ calls # << >> /\ calls[1].op = "poll"
    /\ (/\ BetweenSteps /\ IdleStep /\ calls[1].oid # None
        /\ orders[Len(orders)].status = "filled") =>
          /\ out = "none"
          /\ order_id = calls[1].oid

\* the order placed by the last step was filled at its placement and the
\* step returned none with the order tracked
C32_Witness ==
    /\ BetweenSteps /\ IdleStep /\ calls[1].oid # None
    /\ Len(calls) = 1 /\ calls[1].op = "place"
    /\ orders[Len(orders)].status = "filled"
    /\ out = "none" /\ order_id # None

\* the fill of an order filled at its placement is reported by the next
\* dispatched quote
C32_ReportedLater ==
    /\ out = "filled"
    /\ Len(orders) = 1
    /\ Len(dequeued) >= 2

\* the engine is through with the order of the call at position i of
\* history: it has called cancel for it, or poll_fill has said it is filled
DoneWith(i) == history[i].op = "cancel" \/ history[i].filled

\* C31: for every identifier place_limit has returned, the engine calls
\* cancel at most once, and makes no poll_fill or cancel call for it after a
\* cancel call for it or after a poll_fill that said filled
C31_NoCallAfterCancelOrFill ==
    \A i, j \in DOMAIN history :
        (/\ i < j
         /\ DoneWith(i)
         /\ history[j].op \in {"poll", "cancel"})
        => history[j].oid # history[i].oid

\* an order was cancelled in a refresh and its replacement was polled in a
\* later step and reported filled
C31_Witness ==
    \E i, j \in DOMAIN history :
        /\ i + 1 < j
        /\ history[i].op = "cancel"
        /\ history[i + 1].op = "place" /\ history[i + 1].oid # None
        /\ history[j].filled /\ history[j].oid = history[i + 1].oid

\* the refreshes in history: a place_limit call made right after a cancel
\* call, in the same step
Refreshes ==
    Cardinality({ k \in DOMAIN history :
                    /\ k > 1
                    /\ history[k].op = "place"
                    /\ history[k - 1].op = "cancel" })

\* C33: the num_refresh of the row written at the terminal outcome, the
\* place_limit count minus one, is the number of refreshes the engine made
\* in the run, whatever the venue answered
C33_NumRefreshIsRefreshes ==
    csv_row # None => Val(csv_row).num_refresh = Refreshes

\* when every placement of the run returned an identifier the recorded
\* num_refresh is the number of refreshes
C33_ExactWhenPlacementsSucceed ==
    (/\ csv_row # None
     /\ \A k \in DOMAIN history :
           history[k].op = "place" => history[k].oid # None)
    => Val(csv_row).num_refresh = Refreshes

=============================================================================
